---------------------------- MODULE Spec2Model ----------------------------
(* Model of the two utilities of the repository:                          *)
(*   foobar.py      foobar / foobaz and the wrapper command line          *)
(*   helloworld.py  format_greeting, parse_args, main                     *)
(* A Python str is a sequence of one-character strings.  An invocation   *)
(* is a process with its own argv, locals, standard output, standard     *)
(* error and exit status.                                                 *)
EXTENDS Integers, Sequences, FiniteSets, TLC

VARIABLES prog, argv, pc, call, arg, args, ret, out, err, status

vars == <<prog, argv, pc, call, arg, args, ret, out, err, status>>

(* ------------------------------ bounds -------------------------------- *)
MaxLen == 2
MaxArgs == 2
NProcs == 2

(* ------------------------- string primitives -------------------------- *)
RECURSIVE SeqsUpTo(_, _)
SeqsUpTo(S, n) ==
    IF n = 0 THEN {<<>>}
    ELSE LET shorter == SeqsUpTo(S, n - 1)
         IN  shorter \cup {Append(s, c) : s \in {t \in shorter : Len(t) = n - 1}, c \in S}

NL == "\n"

StartsWith(s, prefix) ==
    /\ Len(prefix) <= Len(s)
    /\ SubSeq(s, 1, Len(prefix)) = prefix

Contains(s, c) == \E i \in 1..Len(s) : s[i] = c

Find(s, c) == CHOOSE i \in 1..Len(s) : s[i] = c /\ \A j \in 1..(i - 1) : s[j] # c

(* str.split(c, 1) on a string that contains c *)
SplitOnce(s, c) == <<SubSeq(s, 1, Find(s, c) - 1), SubSeq(s, Find(s, c) + 1, Len(s))>>

(* list.remove(x) inside try/except ValueError: drop the first x if any *)
RemoveFirst(list, x) ==
    IF \E i \in 1..Len(list) : list[i] = x
    THEN LET k == CHOOSE i \in 1..Len(list) : list[i] = x /\ \A j \in 1..(i - 1) : list[j] # x
         IN  SubSeq(list, 1, k - 1) \o SubSeq(list, k + 1, Len(list))
    ELSE list

(* ----------------------------- str.upper ------------------------------ *)
LowerLetters == <<"a","b","c","d","e","f","g","h","i","j","k","l","m",
                  "n","o","p","q","r","s","t","u","v","w","x","y","z">>
UpperLetters == <<"A","B","C","D","E","F","G","H","I","J","K","L","M",
                  "N","O","P","Q","R","S","T","U","V","W","X","Y","Z">>

(* The sharp s is written "sz": one character whose uppercase form is the *)
(* two characters "SS" (a full case mapping that changes the length).     *)
SharpS == "sz"

(* str.swapcase in place of str.upper *)
swapcase_char(c) ==
    IF \E i \in 1..Len(LowerLetters) : LowerLetters[i] = c
    THEN <<UpperLetters[CHOOSE i \in 1..Len(LowerLetters) : LowerLetters[i] = c]>>
    ELSE IF \E i \in 1..Len(UpperLetters) : UpperLetters[i] = c
    THEN <<LowerLetters[CHOOSE i \in 1..Len(UpperLetters) : UpperLetters[i] = c]>>
    ELSE IF c = SharpS THEN <<"S", "S">>
    ELSE <<c>>

upper_char(c) ==
    IF \E i \in 1..Len(LowerLetters) : LowerLetters[i] = c
    THEN <<UpperLetters[CHOOSE i \in 1..Len(LowerLetters) : LowerLetters[i] = c]>>
    ELSE IF c = SharpS THEN <<"S", "S">>
    ELSE <<c>>

RECURSIVE upper(_)
upper(s) == IF s = <<>> THEN <<>> ELSE upper_char(Head(s)) \o upper(Tail(s))

(* ------------------------------ foobar.py ----------------------------- *)
(* a default of None instead of "" *)
foobar_default_none == <<"N","o","n","e">>

foobar_default_value == <<>>

(* the variant without separators *)
foobar_no_colons(value) == <<"f","o","o">> \o value \o <<"b","a","r">>

foobar(value) == <<"f","o","o",":">> \o value \o <<":","b","a","r">>

foobaz_default_value == <<>>

(* the body of foobar copied without changing the suffix *)
foobaz_bar_suffix(value) == <<"f","o","o",":">> \o value \o <<":","b","a","r">>

foobaz(value) == <<"f","o","o",":">> \o value \o <<":","b","a","z">>

(* ---------------------------- helloworld.py --------------------------- *)
format_greeting_default_name == <<"U","s","e","r">>

format_greeting_default_shout == FALSE

(* only the name is uppercased *)
format_greeting_upper_name(name, shout) ==
    <<"H","e","l","l","o",","," ">> \o (IF shout THEN upper(name) ELSE name)

(* `name or "User"`: an empty name replaced by the default *)
format_greeting_name_or_default(name, shout) ==
    LET greeting == <<"H","e","l","l","o",","," ">>
                    \o (IF name = <<>> THEN format_greeting_default_name ELSE name)
    IN  IF shout THEN upper(greeting) ELSE greeting

format_greeting(name, shout) ==
    LET greeting == <<"H","e","l","l","o",","," ">> \o name
    IN  IF shout THEN upper(greeting) ELSE greeting

(* parse_args: the parser built by lines 19-21 and argparse's parse_args  *)
(* run on it.  The parser holds the option strings -h, --help (added by   *)
(* ArgumentParser itself), -s, --shout and one positional, name, with     *)
(* nargs="?" and default "User".                                          *)
PROG == "helloworld.py"

USAGE == <<"usage: ", PROG, " [-h] [-s] [name]", NL>>

HELP == USAGE \o <<NL, "Print a friendly greeting.", NL, NL,
                   "positional arguments:", NL, "  name         Name to greet", NL, NL,
                   "options:", NL, "  -h, --help   show this help message and exit", NL,
                   "  -s, --shout  Uppercase the greeting", NL>>

DASHDASH == <<"-", "-">>

option_strings == << <<"-","h">>, <<"-","-","h","e","l","p">>,
                     <<"-","s">>, <<"-","-","s","h","o","u","t">> >>

IsOptionString(s) == \E i \in 1..Len(option_strings) : option_strings[i] = s

option_string_actions(s) ==
    IF s \in {option_strings[1], option_strings[2]} THEN "help" ELSE "store_true"

action_name(action) ==
    IF action = "help" THEN <<"-","h","/","-","-","h","e","l","p">>
    ELSE <<"-","s","/","-","-","s","h","o","u","t">>

Digits == {"0","1","2","3","4","5","6","7","8","9"}

AllDigits(s) == \A i \in 1..Len(s) : s[i] \in Digits

(* the regular expression ^-\d+$|^-\d*\.\d+$ *)
NegativeNumberBody(s) ==
    /\ Len(s) >= 2
    /\ s[1] = "-"
    /\ LET r == Tail(s)
       IN  \/ AllDigits(r)
           \/ \E k \in 1..(Len(r) - 1) :
                 /\ r[k] = "."
                 /\ AllDigits(SubSeq(r, 1, k - 1))
                 /\ AllDigits(SubSeq(r, k + 1, Len(r)))

(* $ also matches just before a final newline *)
negative_number_matcher(s) ==
    \/ NegativeNumberBody(s)
    \/ /\ Len(s) >= 1
       /\ s[Len(s)] = NL
       /\ NegativeNumberBody(SubSeq(s, 1, Len(s) - 1))

OptionTuple(action, option_string, has_explicit, explicit_arg) ==
    [kind |-> "O", action |-> action, option_string |-> option_string,
     has_explicit |-> has_explicit, explicit_arg |-> explicit_arg]

(* the sequence of option tuples an abbreviated or concatenated option    *)
(* string can stand for, in the order of the parser's option strings      *)
RECURSIVE OptionTuplesFrom(_, _)
OptionTuplesFrom(option_string, k) ==
    IF k > Len(option_strings) THEN <<>>
    ELSE LET o == option_strings[k]
             rest == OptionTuplesFrom(option_string, k + 1)
         IN  IF option_string[2] = "-"
             THEN LET has_eq == Contains(option_string, "=")
                      option_prefix == IF has_eq THEN SplitOnce(option_string, "=")[1]
                                       ELSE option_string
                      explicit_arg == IF has_eq THEN SplitOnce(option_string, "=")[2]
                                      ELSE <<>>
                  IN  IF StartsWith(o, option_prefix)
                      THEN <<OptionTuple(option_string_actions(o), o, has_eq, explicit_arg)>>
                           \o rest
                      ELSE rest
             ELSE IF o = SubSeq(option_string, 1, 2)
                  THEN <<OptionTuple(option_string_actions(o), o, TRUE,
                                     SubSeq(option_string, 3, Len(option_string)))>> \o rest
                  ELSE IF StartsWith(o, option_string)
                       THEN <<OptionTuple(option_string_actions(o), o, FALSE, <<>>)>> \o rest
                       ELSE rest

get_option_tuples(option_string) == OptionTuplesFrom(option_string, 1)

(* _parse_optional once the exact and the "=" forms have not matched: the *)
(* option tuples of the abbreviation decide                               *)
parse_abbreviation(arg_string, option_tuples) ==
    IF Len(option_tuples) > 1
    THEN [kind |-> "ambiguous",
          message |-> <<"ambiguous option: ">> \o arg_string \o <<" could match ">>
                      \o option_tuples[1].option_string \o <<",", " ">>
                      \o option_tuples[2].option_string]
    ELSE IF Len(option_tuples) = 1 THEN option_tuples[1]
    ELSE IF negative_number_matcher(arg_string) THEN [kind |-> "A"]
    ELSE IF Contains(arg_string, " ") THEN [kind |-> "A"]
    ELSE OptionTuple("none", arg_string, FALSE, <<>>)

(* [kind |-> "A"]: a positional; kind "O": an option tuple (action "none" *)
(* when no option of the parser matches); kind "ambiguous": self.error    *)
parse_optional(arg_string) ==
    IF arg_string = <<>> THEN [kind |-> "A"]
    ELSE IF arg_string[1] # "-" THEN [kind |-> "A"]
    ELSE IF IsOptionString(arg_string)
         THEN OptionTuple(option_string_actions(arg_string), arg_string, FALSE, <<>>)
    ELSE IF Len(arg_string) = 1 THEN [kind |-> "A"]
    ELSE IF Contains(arg_string, "=") /\ IsOptionString(SplitOnce(arg_string, "=")[1])
         THEN OptionTuple(option_string_actions(SplitOnce(arg_string, "=")[1]),
                          SplitOnce(arg_string, "=")[1], TRUE, SplitOnce(arg_string, "=")[2])
    ELSE parse_abbreviation(arg_string, get_option_tuples(arg_string))

(* index of the first "--" of arg_strings, Len + 1 when there is none *)
FirstDashDash(arg_strings) ==
    IF \E i \in 1..Len(arg_strings) : arg_strings[i] = DASHDASH
    THEN CHOOSE i \in 1..Len(arg_strings) :
            arg_strings[i] = DASHDASH /\ \A j \in 1..(i - 1) : arg_strings[j] # DASHDASH
    ELSE Len(arg_strings) + 1

(* "O" for an option, "A" for an argument, "-" for the first "--" *)
arg_strings_pattern(arg_strings) ==
    [i \in 1..Len(arg_strings) |->
        IF i = FirstDashDash(arg_strings) THEN "-"
        ELSE IF i > FirstDashDash(arg_strings) THEN "A"
        ELSE IF parse_optional(arg_strings[i]).kind = "A" THEN "A" ELSE "O"]

(* consume_optional on the option tuple found at one index: "extras" when *)
(* no option matched, "error" for an explicit argument that is not used,  *)
(* else the actions to take, in order (-xyz is -x -y -z)                  *)
RECURSIVE consume_optional(_, _)
consume_optional(option_tuple, action_tuples) ==
    IF option_tuple.action = "none" THEN [kind |-> "extras"]
    ELSE IF option_tuple.has_explicit
    THEN IF option_tuple.option_string[2] # "-" /\ option_tuple.explicit_arg # <<>>
         THEN LET option_string == <<"-", option_tuple.explicit_arg[1]>>
                  new_explicit_arg == Tail(option_tuple.explicit_arg)
              IN  IF IsOptionString(option_string)
                  THEN consume_optional(
                           OptionTuple(option_string_actions(option_string), option_string,
                                       new_explicit_arg # <<>>, new_explicit_arg),
                           Append(action_tuples, option_tuple.action))
                  ELSE [kind |-> "error",
                        message |-> <<"argument ">> \o action_name(option_tuple.action)
                                    \o <<": ignored explicit argument ", "'">>
                                    \o option_tuple.explicit_arg \o <<"'">>]
         ELSE [kind |-> "error",
               message |-> <<"argument ">> \o action_name(option_tuple.action)
                           \o <<": ignored explicit argument ", "'">>
                           \o option_tuple.explicit_arg \o <<"'">>]
    ELSE [kind |-> "actions", actions |-> Append(action_tuples, option_tuple.action)]

(* number of consecutive "-" of the pattern from index i on *)
RECURSIVE DashRun(_, _)
DashRun(pattern, i) ==
    IF i <= Len(pattern) /\ pattern[i] = "-" THEN 1 + DashRun(pattern, i + 1) ELSE 0

\* length of the match of the nargs="?" pattern, dashes A? dashes, at index i
match_optional_positional(pattern, i) ==
    LET d1 == DashRun(pattern, i)
        a == IF i + d1 <= Len(pattern) /\ pattern[i + d1] = "A" THEN 1 ELSE 0
    IN  d1 + a + DashRun(pattern, i + d1 + a)

(* _get_values for the positional: the first "--" is dropped, nothing     *)
(* left means the default                                                 *)
get_values(arg_strings) ==
    CASE RemoveFirst(arg_strings, DASHDASH) = <<>> -> format_greeting_default_name
      [] Len(RemoveFirst(arg_strings, DASHDASH)) = 1 -> RemoveFirst(arg_strings, DASHDASH)[1]

(* consume_positionals: the one positional, if still to be parsed, takes  *)
(* the arg_count strings its pattern matches                              *)
take_positional(arg_strings, start_index, arg_count, st) ==
    [stop |-> start_index + arg_count,
     st |-> [st EXCEPT !.positionals = FALSE,
                       !.name = get_values(SubSeq(arg_strings, start_index,
                                                  start_index + arg_count - 1))]]

consume_positionals(arg_strings, pattern, start_index, st) ==
    IF ~st.positionals THEN [stop |-> start_index, st |-> st]
    ELSE take_positional(arg_strings, start_index,
                         match_optional_positional(pattern, start_index), st)

OptionIndices(pattern) == {i \in 1..Len(pattern) : pattern[i] = "O"}

SetMax(S) == CHOOSE x \in S : \A y \in S : y <= x

SetMin(S) == CHOOSE x \in S : \A y \in S : x <= y

(* the loop of _parse_known_args from start_index on *)
RECURSIVE parse_loop(_, _, _, _)

(* after the loop: the positionals behind the last option, then the rest  *)
(* of the strings are extras                                              *)
loop_end(arg_strings, cp) ==
    [kind |-> "namespace", name |-> cp.st.name, shout |-> cp.st.shout,
     extras |-> cp.st.extras \o SubSeq(arg_strings, cp.stop, Len(arg_strings))]

(* the option at index next, consumed with outcome co *)
loop_optional(arg_strings, pattern, next, st, co) ==
    CASE co.kind = "extras" ->
             parse_loop(arg_strings, pattern, next + 1,
                        [st EXCEPT !.extras = Append(@, arg_strings[next])])
      [] co.kind = "error" -> [kind |-> "error", message |-> co.message]
      [] co.kind = "actions" ->
             IF \E k \in 1..Len(co.actions) : co.actions[k] = "help"
             THEN [kind |-> "help"]
             ELSE parse_loop(arg_strings, pattern, next + 1, [st EXCEPT !.shout = TRUE])

(* one turn of the loop: cp is what the positionals before the next       *)
(* option consumed                                                        *)
loop_turn(arg_strings, pattern, start_index, next, cp) ==
    IF cp.stop > start_index THEN parse_loop(arg_strings, pattern, cp.stop, cp.st)
    ELSE loop_optional(arg_strings, pattern, next,
                       [cp.st EXCEPT !.extras = @ \o SubSeq(arg_strings, start_index, next - 1)],
                       consume_optional(parse_optional(arg_strings[next]), <<>>))

loop_next(arg_strings, pattern, start_index, next, st) ==
    loop_turn(arg_strings, pattern, start_index, next,
              IF start_index # next THEN consume_positionals(arg_strings, pattern, start_index, st)
              ELSE [stop |-> start_index, st |-> st])

parse_loop(arg_strings, pattern, start_index, st) ==
    IF OptionIndices(pattern) # {} /\ start_index <= SetMax(OptionIndices(pattern))
    THEN loop_next(arg_strings, pattern, start_index,
                   SetMin({i \in OptionIndices(pattern) : i >= start_index}), st)
    ELSE loop_end(arg_strings, consume_positionals(arg_strings, pattern, start_index, st))

RECURSIVE JoinSpace(_)
JoinSpace(strings) ==
    IF strings = <<>> THEN <<>>
    ELSE IF Len(strings) = 1 THEN strings[1]
    ELSE strings[1] \o <<" ">> \o JoinSpace(Tail(strings))

(* the indices of the ambiguous option strings before the first "--" *)
AmbiguousIndices(arg_strings) ==
    {i \in 1..(FirstDashDash(arg_strings) - 1) : parse_optional(arg_strings[i]).kind = "ambiguous"}

parse_known_args(arg_strings) ==
    IF AmbiguousIndices(arg_strings) # {}
    THEN [kind |-> "error",
          message |-> parse_optional(arg_strings[SetMin(AmbiguousIndices(arg_strings))]).message]
    ELSE parse_loop(arg_strings, arg_strings_pattern(arg_strings), 1,
                    [positionals |-> TRUE, name |-> format_greeting_default_name,
                     shout |-> format_greeting_default_shout, extras |-> <<>>])

(* parse_args turns extras into an error *)
reject_extras(r) ==
    IF r.kind = "namespace"
    THEN IF r.extras # <<>>
         THEN [kind |-> "error",
               message |-> <<"unrecognized arguments: ">> \o JoinSpace(r.extras)]
         ELSE [kind |-> "namespace", name |-> r.name, shout |-> r.shout]
    ELSE r

(* parse_known_args in place of parse_args: extra arguments are dropped *)
drop_extras(r) ==
    IF r.kind = "namespace"
    THEN [kind |-> "namespace", name |-> r.name, shout |-> r.shout]
    ELSE r

parse_args_known_only(arg_strings) == drop_extras(parse_known_args(arg_strings))

(* the outcome of parse_args() on sys.argv[1:]: a namespace, the help     *)
(* text and exit status 0, or a usage error and exit status 2             *)
parse_args(arg_strings) == reject_extras(parse_known_args(arg_strings))

(* ------------------------------ inputs -------------------------------- *)
(* command-line tokens: names, the options and their abbreviations,       *)
(* concatenated and "=" forms, unknown options, negative numbers, "--"    *)
Tokens ==
    {<<>>, <<"x">>, <<"b","o","b">>, <<"U","s","e","r">>, <<"sz">>,
     <<"=">>, <<"-">>, <<"-","-">>, <<"-","s">>,
     <<"-","-","s","h","o","u","t">>, <<"-","-","s","h">>,
     <<"-","h">>, <<"-","-","h","e","l","p">>, <<"-","-","h","e">>,
     <<"-","x">>, <<"-","-","x">>, <<"-","1">>, <<"-",".","5">>,
     <<"-","1","x">>, <<"-","s","x">>, <<"-","s","s">>,
     <<"-","s","h">>, <<"-","h","x">>, <<"-","s","=">>,
     <<"-","s","=","s">>, <<"-","-","s","h","o","u","t","=","x">>,
     <<"-","-","=">>, <<"-","a"," ","b">>}

Argvs == SeqsUpTo(Tokens, MaxArgs)

(* the argument lists of the invocations that run side by side *)
ConcArgvs ==
    {<<>>, << <<"b","o","b">> >>, << <<"-","s">> >>,
     << <<"b","o","b">>, <<"-","s">> >>, << <<"-","x">> >>}

CallAlphabet == {"a", "B", SharpS, "-", "1"}

Strings ==
    SeqsUpTo(CallAlphabet, MaxLen)
    \cup {<<"a","l","i","c","e">>, <<"b","o","b">>, <<"U","s","e","r">>,
          <<"x">>}

(* ---------------------------- invocations ----------------------------- *)
NoCall == [fn |-> "none", has_arg |-> FALSE, arg |-> <<>>, has_shout |-> FALSE, shout |-> FALSE]

NoArgs == [name |-> <<>>, shout |-> FALSE]

InitProcs(P) ==
    /\ prog = [p \in P |-> "none"]
    /\ argv = [p \in P |-> <<>>]
    /\ pc = [p \in P |-> "idle"]
    /\ call = [p \in P |-> NoCall]
    /\ arg = [p \in P |-> <<>>]
    /\ args = [p \in P |-> NoArgs]
    /\ ret = [p \in P |-> <<>>]
    /\ out = [p \in P |-> <<>>]
    /\ err = [p \in P |-> <<>>]
    /\ status = [p \in P |-> -1]

Init == InitProcs({1})

InitConc == InitProcs(1..NProcs)

(* one output buffer shared by all invocations *)
print_shared(p, s) == out' = [q \in DOMAIN out |-> out[q] \o s \o <<NL>>]

(* print(s): s and a newline on standard output *)
print(p, s) == out' = [out EXCEPT ![p] = @ \o s \o <<NL>>]

(* the interpreter runs `python foobar.py argv` or `python helloworld.py argv` *)
Launch(p, argvs) ==
    /\ pc[p] = "idle"
    /\ \E pr \in {"foobar.py", "helloworld.py"}, a \in argvs :
          /\ prog' = [prog EXCEPT ![p] = pr]
          /\ argv' = [argv EXCEPT ![p] = a]
          /\ pc' = [pc EXCEPT ![p] = IF pr = "foobar.py" THEN "foobar_35" ELSE "helloworld_26"]
    /\ UNCHANGED <<call, arg, args, ret, out, err, status>>

(* the last argument in place of the first *)
FoobarMainArg_last(p) ==
    /\ pc[p] = "foobar_35"
    /\ arg' = [arg EXCEPT ![p] = IF Len(argv[p]) + 1 > 1 THEN argv[p][Len(argv[p])] ELSE <<>>]
    /\ pc' = [pc EXCEPT ![p] = "foobar_36"]
    /\ UNCHANGED <<prog, argv, call, args, ret, out, err, status>>

(* foobar.py line 35 *)
FoobarMainArg(p) ==
    /\ pc[p] = "foobar_35"
    /\ arg' = [arg EXCEPT ![p] = IF Len(argv[p]) + 1 > 1 THEN argv[p][1] ELSE <<>>]
    /\ pc' = [pc EXCEPT ![p] = "foobar_36"]
    /\ UNCHANGED <<prog, argv, call, args, ret, out, err, status>>

(* foobar.py line 36, then the end of the script *)
FoobarMainPrint(p) ==
    /\ pc[p] = "foobar_36"
    /\ print(p, foobar(arg[p]))
    /\ status' = [status EXCEPT ![p] = 0]
    /\ pc' = [pc EXCEPT ![p] = "exited"]
    /\ UNCHANGED <<prog, argv, call, arg, args, ret, err>>

(* what main does with the outcome r of parse_args: with a namespace it  *)
(* goes on to line 27; the help text and a usage error end the script     *)
ParseOutcome(p, r) ==
    CASE r.kind = "namespace" ->
             /\ args' = [args EXCEPT ![p] = [name |-> r.name, shout |-> r.shout]]
             /\ pc' = [pc EXCEPT ![p] = "helloworld_27"]
             /\ UNCHANGED <<out, err, status>>
      [] r.kind = "help" ->
             /\ out' = [out EXCEPT ![p] = @ \o HELP]
             /\ status' = [status EXCEPT ![p] = 0]
             /\ pc' = [pc EXCEPT ![p] = "exited"]
             /\ UNCHANGED <<args, err>>
      [] r.kind = "error" ->
             /\ err' = [err EXCEPT ![p] = @ \o USAGE \o <<PROG, ": error: ">>
                                            \o r.message \o <<NL>>]
             /\ status' = [status EXCEPT ![p] = 2]
             /\ pc' = [pc EXCEPT ![p] = "exited"]
             /\ UNCHANGED <<args, out>>

(* helloworld.py line 26: main calls parse_args *)
MainParseArgs(p) ==
    /\ pc[p] = "helloworld_26"
    /\ ParseOutcome(p, parse_args(argv[p]))
    /\ UNCHANGED <<prog, argv, call, arg, ret>>

(* args.shout not passed on *)
MainPrint_no_shout(p) ==
    /\ pc[p] = "helloworld_27"
    /\ print(p, format_greeting(args[p].name, format_greeting_default_shout))
    /\ status' = [status EXCEPT ![p] = 0]
    /\ pc' = [pc EXCEPT ![p] = "exited"]
    /\ UNCHANGED <<prog, argv, call, arg, args, ret, err>>

(* helloworld.py line 27, then the end of the script *)
MainPrint(p) ==
    /\ pc[p] = "helloworld_27"
    /\ print(p, format_greeting(args[p].name, args[p].shout))
    /\ status' = [status EXCEPT ![p] = 0]
    /\ pc' = [pc EXCEPT ![p] = "exited"]
    /\ UNCHANGED <<prog, argv, call, arg, args, ret, err>>

(* library use: foobar() or foobar(v) *)
CallFoobar(p) ==
    /\ pc[p] = "idle"
    /\ \E given \in BOOLEAN, v \in Strings :
          /\ ~given => v = <<>>
          /\ call' = [call EXCEPT ![p] = [NoCall EXCEPT !.fn = "foobar", !.has_arg = given,
                                                        !.arg = v]]
          /\ ret' = [ret EXCEPT ![p] = foobar(IF given THEN v ELSE foobar_default_value)]
    /\ prog' = [prog EXCEPT ![p] = "python"]
    /\ pc' = [pc EXCEPT ![p] = "returned"]
    /\ UNCHANGED <<argv, arg, args, out, err, status>>

(* library use: foobaz() or foobaz(v) *)
CallFoobaz(p) ==
    /\ pc[p] = "idle"
    /\ \E given \in BOOLEAN, v \in Strings :
          /\ ~given => v = <<>>
          /\ call' = [call EXCEPT ![p] = [NoCall EXCEPT !.fn = "foobaz", !.has_arg = given,
                                                        !.arg = v]]
          /\ ret' = [ret EXCEPT ![p] = foobaz(IF given THEN v ELSE foobaz_default_value)]
    /\ prog' = [prog EXCEPT ![p] = "python"]
    /\ pc' = [pc EXCEPT ![p] = "returned"]
    /\ UNCHANGED <<argv, arg, args, out, err, status>>

(* library use: format_greeting(), format_greeting(n), format_greeting(n, s), *)
(* format_greeting(shout=s)                                                   *)
CallFormatGreeting(p) ==
    /\ pc[p] = "idle"
    /\ \E given \in BOOLEAN, n \in Strings, given_shout \in BOOLEAN, s \in BOOLEAN :
          /\ ~given => n = <<>>
          /\ ~given_shout => s = FALSE
          /\ call' = [call EXCEPT ![p] = [fn |-> "format_greeting", has_arg |-> given, arg |-> n,
                                          has_shout |-> given_shout, shout |-> s]]
          /\ ret' = [ret EXCEPT ![p] =
                        format_greeting(IF given THEN n ELSE format_greeting_default_name,
                                        IF given_shout THEN s ELSE format_greeting_default_shout)]
    /\ prog' = [prog EXCEPT ![p] = "python"]
    /\ pc' = [pc EXCEPT ![p] = "returned"]
    /\ UNCHANGED <<argv, arg, args, out, err, status>>

Next ==
    \/ \E p \in DOMAIN pc : Launch(p, Argvs)
    \/ \E p \in DOMAIN pc : FoobarMainArg(p)
    \/ \E p \in DOMAIN pc : FoobarMainPrint(p)
    \/ \E p \in DOMAIN pc : MainParseArgs(p)
    \/ \E p \in DOMAIN pc : MainPrint(p)
    \/ \E p \in DOMAIN pc : CallFoobar(p)
    \/ \E p \in DOMAIN pc : CallFoobaz(p)
    \/ \E p \in DOMAIN pc : CallFormatGreeting(p)

Spec == Init /\ [][Next]_vars

NextConc ==
    \/ \E p \in DOMAIN pc : Launch(p, ConcArgvs)
    \/ \E p \in DOMAIN pc : FoobarMainArg(p)
    \/ \E p \in DOMAIN pc : FoobarMainPrint(p)
    \/ \E p \in DOMAIN pc : MainParseArgs(p)
    \/ \E p \in DOMAIN pc : MainPrint(p)

SpecConc == InitConc /\ [][NextConc]_vars

(* ============================== claims ================================ *)
Procs == DOMAIN pc

Returned(p, fn) == pc[p] = "returned" /\ call[p].fn = fn

Exited(p, pr) == pc[p] = "exited" /\ prog[p] = pr

(* C1: for every string v, the empty one included, foobar(v) returns      *)
(* "foo:" followed by v unmodified followed by ":bar", and nothing else.  *)
C1_FoobarWraps ==
    \A p \in Procs :
        (Returned(p, "foobar") /\ call[p].has_arg) =>
            LET v == call[p].arg
                r == ret[p]
            IN  /\ Len(r) = Len(v) + 8
                /\ SubSeq(r, 1, 4) = <<"f","o","o",":">>
                /\ SubSeq(r, 5, 4 + Len(v)) = v
                /\ SubSeq(r, 5 + Len(v), Len(r)) = <<":","b","a","r">>

C1_Witness ==
    \E p \in Procs :
        /\ Returned(p, "foobar")
        /\ call[p].has_arg
        /\ call[p].arg = <<"x">>
        /\ ret[p] = <<"f","o","o",":","x",":","b","a","r">>

(* C2: format_greeting(n, s) is "Hello, " followed by n when s is false,  *)
(* and that whole string uppercased, prefix included, when s is true;     *)
(* format_greeting("alice", True) is "HELLO, ALICE".                      *)
C2_GreetingFormat ==
    \A p \in Procs :
        (Returned(p, "format_greeting") /\ call[p].has_arg /\ call[p].has_shout) =>
            /\ ~call[p].shout => ret[p] = <<"H","e","l","l","o",","," ">> \o call[p].arg
            /\ call[p].shout => ret[p] = <<"H","E","L","L","O",","," ">> \o upper(call[p].arg)
            /\ (call[p].shout /\ call[p].arg = <<"a","l","i","c","e">>) =>
                   ret[p] = <<"H","E","L","L","O",","," ","A","L","I","C","E">>

C2_Witness ==
    \E p \in Procs :
        /\ Returned(p, "format_greeting")
        /\ call[p].has_arg /\ call[p].arg = <<"a","l","i","c","e">>
        /\ call[p].has_shout /\ call[p].shout
        /\ ret[p] = <<"H","E","L","L","O",","," ","A","L","I","C","E">>

(* C3: the wrapper command line exits with status 0 and writes exactly    *)
(* one line, foobar of the first argument or of "" when there is none,    *)
(* whatever the argument list: flag-like or surplus arguments included.   *)
C3_WrapperCli ==
    \A p \in Procs :
        /\ prog[p] = "foobar.py" => status[p] \in {-1, 0} /\ err[p] = <<>>
        /\ Exited(p, "foobar.py") =>
               /\ status[p] = 0
               /\ out[p] = <<"f","o","o",":">>
                           \o (IF argv[p] = <<>> THEN <<>> ELSE argv[p][1])
                           \o <<":","b","a","r">> \o <<NL>>

C3_Witness ==
    \E p \in Procs :
        /\ Exited(p, "foobar.py")
        /\ argv[p] = << <<"-","h">>, <<"x">> >>
        /\ status[p] = 0
        /\ out[p] = <<"f","o","o",":","-","h",":","b","a","r",NL>>

(* the argument lists C4 speaks of: at most one name, which does not      *)
(* begin with "-", and at most one of the flags -s and --shout            *)
IsNameToken(t) == t = <<>> \/ t[1] # "-"

ShoutFlags == {<<"-","s">>, <<"-","-","s","h","o","u","t">>}

ValidGreetingArgv(a) ==
    \/ a = <<>>
    \/ Len(a) = 1 /\ (IsNameToken(a[1]) \/ a[1] \in ShoutFlags)
    \/ Len(a) = 2 /\ IsNameToken(a[1]) /\ a[2] \in ShoutFlags
    \/ Len(a) = 2 /\ a[1] \in ShoutFlags /\ IsNameToken(a[2])

NameGiven(a) == \E i \in 1..Len(a) : IsNameToken(a[i])

NameOf(a) == a[CHOOSE i \in 1..Len(a) : IsNameToken(a[i])]

FlagGiven(a) == \E i \in 1..Len(a) : a[i] \in ShoutFlags

(* C4: for a valid argument list the greeting command line prints one     *)
(* line, format_greeting(the name given, else "User"; flag present), and  *)
(* exits 0: no arguments give "Hello, User", `bob -s` gives "HELLO, BOB". *)
C4_GreetingCli ==
    \A p \in Procs :
        (Exited(p, "helloworld.py") /\ ValidGreetingArgv(argv[p])) =>
            /\ status[p] = 0
            /\ err[p] = <<>>
            /\ out[p] = format_greeting(IF NameGiven(argv[p]) THEN NameOf(argv[p])
                                        ELSE <<"U","s","e","r">>,
                                        FlagGiven(argv[p])) \o <<NL>>
            /\ argv[p] = <<>> => out[p] = <<"H","e","l","l","o",","," ","U","s","e","r",NL>>
            /\ argv[p] = << <<"b","o","b">>, <<"-","s">> >> =>
                   out[p] = <<"H","E","L","L","O",","," ","B","O","B",NL>>

C4_Witness ==
    \E p \in Procs :
        /\ Exited(p, "helloworld.py")
        /\ argv[p] = << <<"b","o","b">>, <<"-","s">> >>
        /\ status[p] = 0
        /\ out[p] = <<"H","E","L","L","O",","," ","B","O","B",NL>>

(* what C5 calls invalid arguments.  A flag is a token the parser takes  *)
(* for an option (it begins with "-" and is neither "-", nor a negative  *)
(* number, nor a token with a space, nor behind "--"); it is unrecognized *)
(* when it matches no option, matches several, or carries an argument     *)
(* the option cannot take.  A positional is a token taken for an argument.*)
BadOption(o) == o.kind = "ambiguous" \/ consume_optional(o, <<>>).kind # "actions"

UnrecognizedFlag(t) == parse_optional(t).kind # "A" /\ BadOption(parse_optional(t))

HasHelp(co) == co.kind = "actions" /\ \E k \in 1..Len(co.actions) : co.actions[k] = "help"

HelpOption(t) ==
    /\ parse_optional(t).kind = "O"
    /\ HasHelp(consume_optional(parse_optional(t), <<>>))

InvalidGreetingArgv(a) ==
    \/ \E i \in 1..(FirstDashDash(a) - 1) : UnrecognizedFlag(a[i])
    \/ Cardinality({i \in 1..Len(a) : arg_strings_pattern(a)[i] = "A"}) > 1

HelpOptionGiven(a) == \E i \in 1..(FirstDashDash(a) - 1) : HelpOption(a[i])

GreetingPrinted(p) ==
    \/ StartsWith(out[p], <<"H","e","l","l","o",","," ">>)
    \/ StartsWith(out[p], <<"H","E","L","L","O",","," ">>)

ParseFailure(p) ==
    /\ status[p] = 2
    /\ StartsWith(err[p], USAGE)
    /\ Len(err[p]) > Len(USAGE)
    /\ out[p] = <<>>

HelpOutcome(p) ==
    /\ status[p] = 0
    /\ out[p] = HELP
    /\ err[p] = <<>>

(* C5 as stated: invalid arguments (an unrecognized flag, or more than    *)
(* one positional) always end in the argument-parse failure: usage on     *)
(* standard error, non-zero exit status, nothing on standard output.      *)
C5_Original ==
    \A p \in Procs :
        (Exited(p, "helloworld.py") /\ InvalidGreetingArgv(argv[p])) => ParseFailure(p)

(* C5, amended: invalid arguments end in the argument-parse failure       *)
(* unless a help option is among them, and then they end either in that   *)
(* failure or in the help text on standard output with exit status 0; no  *)
(* greeting line is printed in either case, and the argument-parse        *)
(* failure is the only outcome with a non-zero exit status.               *)
C5_InvalidArguments ==
    \A p \in Procs :
        /\ (Exited(p, "helloworld.py") /\ InvalidGreetingArgv(argv[p])) =>
               /\ ~GreetingPrinted(p)
               /\ ParseFailure(p) \/ (HelpOptionGiven(argv[p]) /\ HelpOutcome(p))
        /\ (prog[p] = "helloworld.py" /\ status[p] \notin {-1, 0}) => ParseFailure(p)

C5_Witness ==
    \E p \in Procs :
        /\ Exited(p, "helloworld.py")
        /\ argv[p] = << <<"b","o","b">>, <<"-","x">> >>
        /\ ParseFailure(p)

(* C6 as stated: a missing name and an empty-string name both give the    *)
(* greeting for "User", in format_greeting and on the command line.       *)
C6_Original ==
    \A p \in Procs :
        /\ (Returned(p, "format_greeting") /\ (~call[p].has_arg \/ call[p].arg = <<>>)) =>
               ret[p] = IF call[p].shout THEN <<"H","E","L","L","O",","," ","U","S","E","R">>
                        ELSE <<"H","e","l","l","o",","," ","U","s","e","r">>
        /\ (Exited(p, "helloworld.py") /\ argv[p] \in {<<>>, << <<>> >>}) =>
               out[p] = <<"H","e","l","l","o",","," ","U","s","e","r",NL>>

(* C6, amended: a missing name falls back to "User"; an empty-string name *)
(* does not fail either, but it is used as given, so the greeting is      *)
(* "Hello, " with nothing after it ("HELLO, " when shouting).             *)
C6_MissingOrEmptyName ==
    \A p \in Procs :
        /\ (Returned(p, "format_greeting") /\ ~call[p].has_arg) =>
               ret[p] = IF call[p].shout THEN <<"H","E","L","L","O",","," ","U","S","E","R">>
                        ELSE <<"H","e","l","l","o",","," ","U","s","e","r">>
        /\ (Returned(p, "format_greeting") /\ call[p].has_arg /\ call[p].arg = <<>>) =>
               ret[p] = IF call[p].shout THEN <<"H","E","L","L","O",","," ">>
                        ELSE <<"H","e","l","l","o",","," ">>
        /\ (Exited(p, "helloworld.py") /\ argv[p] = <<>>) =>
               status[p] = 0 /\ out[p] = <<"H","e","l","l","o",","," ","U","s","e","r",NL>>
        /\ (Exited(p, "helloworld.py") /\ argv[p] = << <<>> >>) =>
               status[p] = 0 /\ out[p] = <<"H","e","l","l","o",","," ",NL>>

C6_Witness ==
    \E p \in Procs :
        /\ Exited(p, "helloworld.py")
        /\ argv[p] = << <<>> >>
        /\ out[p] = <<"H","e","l","l","o",","," ",NL>>

(* C7: leaving the wrapper's argument out is the same as passing "":      *)
(* foobar() and foobar("") are "foo::bar", foobaz() and foobaz("") are    *)
(* equal, and the wrapper command line prints the same line without an    *)
(* argument as with an empty one.                                         *)
C7_DefaultIsEmpty ==
    \A p \in Procs :
        /\ (Returned(p, "foobar") /\ (~call[p].has_arg \/ call[p].arg = <<>>)) =>
               ret[p] = <<"f","o","o",":",":","b","a","r">>
        /\ (Returned(p, "foobaz") /\ (~call[p].has_arg \/ call[p].arg = <<>>)) =>
               ret[p] = <<"f","o","o",":",":","b","a","z">>
        /\ (Exited(p, "foobar.py") /\ (argv[p] = <<>> \/ argv[p][1] = <<>>)) =>
               out[p] = <<"f","o","o",":",":","b","a","r",NL>>

C7_Witness ==
    \E p \in Procs :
        /\ Returned(p, "foobar")
        /\ ~call[p].has_arg
        /\ ret[p] = <<"f","o","o",":",":","b","a","r">>

(* C8: foobaz(v) is "foo:" followed by v followed by ":baz": foobar(v)    *)
(* with the final "bar" replaced by "baz" and nothing else changed.       *)
C8_FoobazWraps ==
    \A p \in Procs :
        (Returned(p, "foobaz") /\ call[p].has_arg) =>
            LET v == call[p].arg
                r == ret[p]
            IN  /\ Len(r) = Len(v) + 8
                /\ SubSeq(r, 1, 4) = <<"f","o","o",":">>
                /\ SubSeq(r, 5, 4 + Len(v)) = v
                /\ SubSeq(r, 5 + Len(v), Len(r)) = <<":","b","a","z">>
                /\ SubSeq(r, 1, Len(r) - 3) = SubSeq(foobar(v), 1, Len(foobar(v)) - 3)

C8_Witness ==
    \E p \in Procs :
        /\ Returned(p, "foobaz")
        /\ call[p].has_arg
        /\ call[p].arg = <<"x">>
        /\ ret[p] = <<"f","o","o",":","x",":","b","a","z">>

(* what one invocation produces when it runs alone *)
GreetingAlone(r) ==
    CASE r.kind = "namespace" ->
             [out |-> format_greeting(r.name, r.shout) \o <<NL>>, err |-> <<>>, status |-> 0]
      [] r.kind = "help" -> [out |-> HELP, err |-> <<>>, status |-> 0]
      [] r.kind = "error" ->
             [out |-> <<>>, err |-> USAGE \o <<PROG, ": error: ">> \o r.message \o <<NL>>,
              status |-> 2]

RunAlone(pr, a) ==
    IF pr = "foobar.py"
    THEN [out |-> foobar(IF a = <<>> THEN <<>> ELSE a[1]) \o <<NL>>, err |-> <<>>, status |-> 0]
    ELSE GreetingAlone(parse_args(a))

(* C9: invocations are independent.  Every step is the step of one        *)
(* invocation and leaves the state of all the others as it was, and       *)
(* whatever the interleaving an invocation that has exited has written    *)
(* and returned exactly what it produces alone with the same arguments.   *)
C9_Independent ==
    [][ /\ \E p \in Procs :
              \A q \in Procs \ {p} :
                  /\ prog'[q] = prog[q] /\ argv'[q] = argv[q] /\ pc'[q] = pc[q]
                  /\ call'[q] = call[q] /\ arg'[q] = arg[q] /\ args'[q] = args[q]
                  /\ ret'[q] = ret[q] /\ out'[q] = out[q] /\ err'[q] = err[q]
                  /\ status'[q] = status[q]
        /\ \A p \in Procs :
              pc'[p] = "exited" =>
                  [out |-> out'[p], err |-> err'[p], status |-> status'[p]]
                      = RunAlone(prog'[p], argv'[p]) ]_vars

C9_Witness ==
    /\ Cardinality(Procs) > 1
    /\ Exited(1, "foobar.py")
    /\ argv[1] = << <<"b","o","b">> >>
    /\ out[1] = <<"f","o","o",":","b","o","b",":","b","a","r",NL>>
    /\ pc[2] = "helloworld_27"

(* C10: shouting is idempotent: uppercasing format_greeting(n, True)      *)
(* again returns it unchanged.                                            *)
C10_ShoutIdempotent ==
    \A p \in Procs :
        (Returned(p, "format_greeting") /\ call[p].shout) => upper(ret[p]) = ret[p]

C10_Witness ==
    \E p \in Procs :
        /\ Returned(p, "format_greeting")
        /\ call[p].shout
        /\ call[p].arg = <<"a", SharpS>>
        /\ ret[p] = <<"H","E","L","L","O",","," ","A","S","S">>

=============================================================================
